---- MODULE Spec2Model ----
(***************************************************************************)
(* EcoTrack API server: the challenge-participation handlers of            *)
(* src/unnamed/part_000 (join, progress, leave, challenge create / update  *)
(* / delete) over the two MongoDB collections `challenges` and             *)
(* `userChallenges`.                                                       *)
(*                                                                         *)
(* Every handler is an async function; each `await` of a collection call   *)
(* is one atomic store operation.  An action of this module is one such    *)
(* store operation together with the synchronous code that follows it up   *)
(* to the next await (or to the response).  The first action of a handler  *)
(* also accepts the request.                                               *)
(***************************************************************************)
EXTENDS Integers, Sequences, FiniteSets, Bags, TLC

(* ----------------------------- bounds ---------------------------------- *)
MaxRequests == 2
MaxInFlight == 2
MaxChallenges == 1
MaxEnrollments == 2
MaxClock == 1
MaxStoredEnrollments == 3

Users == {"u1", "u2"}
ChallengeIds == 1..MaxChallenges
EnrollmentIds == 1..MaxEnrollments

(* JSON request values: a missing field, a number, or a non-numeric string *)
Absent == [t |-> "absent"]
Str == [t |-> "str"]
Num(n) == [t |-> "num", v |-> n]

\* a date field of a request body: text that parses to day n
DateText(n) == [t |-> "dateText", v |-> n]

\* the dates of a well-formed challenge, and every kind of value a date field may hold
StartDateInput == DateText(0)
EndDateInput == DateText(1)
DateInputs == {Absent, Str, DateText(0), DateText(1)}

CreateParticipantsInputs == {Absent, Num(2), Num(-1)}
PatchParticipantsInputs == {Num(0), Num(-1)}
ProgressInputs == {Absent, Str, Num(-5), Num(150)}
LogInputs == {Absent, Str, Num(3), Num(5)}

VARIABLES
    challenges,       \* challengesCollection: _id -> document
    nextChallengeId,  \* next _id insertOne gives a challenge
    userChallenges,   \* userChallengesCollection: _id -> document
    nextEnrollmentId, \* next _id insertOne gives a user-challenge
    now,              \* the clock `new Date()` reads
    reqs,             \* handler invocations in flight: a bag of their local states
    issued,           \* number of requests accepted so far
    last,             \* the request that answered last (history)
    prev,             \* the request that answered before `last` (history)
    calls,            \* per enrollment, the addLogValues of answered 200 progress calls (history)
    hist,             \* the stores at the start and the requests accepted since (history)
    app               \* the serverless entry point: app.locals._routesAttached, the
                      \* router's stack of layers, and whether getDb has a cached client

vars == <<challenges, nextChallengeId, userChallenges, nextEnrollmentId, now,
          reqs, issued, last, prev, calls, hist, app>>

stores == <<challenges, nextChallengeId, userChallenges, nextEnrollmentId>>

(* ----------------------------- helpers --------------------------------- *)
Min(a, b) == IF a < b THEN a ELSE b
Max(a, b) == IF a > b THEN a ELSE b

NoDoc == [none |-> TRUE]
NoCall == [kind |-> "none"]

\* typeof x === 'number'
IsNumber(x) == x.t = "num"

\* Number(x) || 0
NumberOrZero(x) == IF IsNumber(x) /\ x.v # 0 THEN x.v ELSE 0

InFlight == BagCardinality(reqs)
AllIdle == reqs = EmptyBag

\* a request is accepted while fewer than lim handlers are running
CanAccept(lim) == issued < MaxRequests /\ InFlight < lim

\* handlers in flight that may still insert a user-challenge
PendingInserts ==
    LET P == {r \in BagToSet(reqs) : r.pc \in {"joinFindExisting", "joinInsert"}}
    IN BagCardinality([r \in P |-> reqs[r]])

\* the stores as a call finds them; kept when calls do not overlap (lim = 1), where
\* it is the state the whole call starts from
Before(lim) == IF lim = 1 THEN [ch |-> challenges, uc |-> userChallenges] ELSE NoDoc

\* the same for an UpdateProgress call, with the time it starts at, which of its two
\* inputs were numbers and whether progress was there without being a number
BeforeProgress(lim, p, a) ==
    IF lim = 1
    THEN [ch |-> challenges, uc |-> userChallenges, now |-> now,
          hasProgress |-> IsNumber(p), hasLog |-> IsNumber(a),
          malformed |-> (p # Absent /\ ~IsNumber(p))]
    ELSE NoDoc

\* what is remembered of the call before the last one
Summary(c) ==
    IF c.kind = "join" /\ c.pre # NoDoc /\ c.id \in DOMAIN c.pre.ch
    THEN [kind |-> c.kind, caller |-> c.caller, id |-> c.id, status |-> c.status,
          participants |-> c.pre.ch[c.id].participants,
          enrolled |-> Cardinality({e \in DOMAIN c.pre.uc :
                          c.pre.uc[e].userId = c.caller /\ c.pre.uc[e].challengeId = c.id})]
    ELSE IF c.kind = "none" THEN c
    ELSE [kind |-> c.kind, caller |-> c.caller, id |-> c.id, status |-> c.status]

\* the request x (a handler's local state or its answer) joins the accepted requests
Accepted(x) == [hist EXCEPT !.trace = @ \cup {[kind |-> x.kind, caller |-> x.caller, id |-> x.id]}]

\* a request is accepted and its handler suspends at an await with local state r
Accept(r) == /\ reqs' = reqs (+) SetToBag({r})
             /\ hist' = Accepted(r)
             /\ UNCHANGED <<last, prev, app>>

\* a request is accepted and answered before its handler awaits again
AnswerAtOnce(c) == /\ UNCHANGED reqs
                   /\ hist' = Accepted(c)
                   /\ prev' = Summary(last)
                   /\ last' = c
                   /\ UNCHANGED app

\* the handler with local state r goes on with local state q
Continue(r, q) == /\ reqs' = (reqs (-) SetToBag({r})) (+) SetToBag({q})
                  /\ UNCHANGED <<last, prev, hist, app>>

\* the handler with local state r answers
Answer(r, c) == /\ reqs' = reqs (-) SetToBag({r})
                /\ prev' = Summary(last)
                /\ last' = c
                /\ UNCHANGED <<hist, app>>

Call(kind, caller, id, status, body, pre) ==
    [kind |-> kind, caller |-> caller, id |-> id, status |-> status, body |-> body, pre |-> pre]

(* ------------------------- store operations ---------------------------- *)
\* mutant: the filter is dropped, the lookup gives the first document of the collection
FindOneAny(coll, id) ==
    IF id \in DOMAIN coll THEN coll[id]
    ELSE IF DOMAIN coll # {} THEN coll[CHOOSE x \in DOMAIN coll : \A y \in DOMAIN coll : x <= y]
    ELSE NoDoc

\* collection.findOne({ _id: id })
FindOne(coll, id) == IF id \in DOMAIN coll THEN coll[id] ELSE NoDoc

\* collection.insertOne(doc) with _id = id
InsertOne(coll, id, doc) == [x \in DOMAIN coll \cup {id} |-> IF x = id THEN doc ELSE coll[x]]

\* collection.deleteOne({ _id: id })
DeleteOne(coll, id) == [x \in DOMAIN coll \ {id} |-> coll[x]]

\* mutant: Join goes on without a challenge
ChallengeNotFoundNever(challenge) == FALSE

\* if (!challenge) return res.status(404)
ChallengeNotFound(challenge) == challenge = NoDoc

\* userChallengesCollection.findOne({ userId, challengeId }): the _ids that match
Matching(uc, u, c) == {e \in DOMAIN uc : uc[e].userId = u /\ uc[e].challengeId = c}

\* mutant: the 'Already joined' lookup finds nothing
FindEnrollmentNever(uc, u, c) == NoDoc

FindEnrollment(uc, u, c) ==
    IF Matching(uc, u, c) = {} THEN NoDoc
    ELSE LET e == CHOOSE x \in Matching(uc, u, c) : \A y \in Matching(uc, u, c) : x <= y
         IN [_id |-> e, doc |-> uc[e]]

\* the document Join inserts
NewUserChallenge(u, c, t) ==
    [userId |-> u, challengeId |-> c, status |-> "Ongoing", progress |-> 0,
     progressLogs |-> <<>>, joinDate |-> t, lastUpdated |-> t]

\* mutant: the insert is dropped when the pair already has a user-challenge
InsertOneIfNew(coll, id, doc) ==
    IF Matching(coll, doc.userId, doc.challengeId) # {} THEN coll ELSE InsertOne(coll, id, doc)

\* userChallengesCollection.insertOne(uc)
InsertUserChallenge(coll, id, doc) == InsertOne(coll, id, doc)

\* mutant: the increment is applied twice
IncParticipantsTwice(ch, c) ==
    IF c \in DOMAIN ch THEN [ch EXCEPT ![c].participants = @ + 2] ELSE ch

\* challengesCollection.updateOne({ _id: c }, { $inc: { participants: 1 } })
IncParticipants(ch, c) ==
    IF c \in DOMAIN ch THEN [ch EXCEPT ![c].participants = @ + 1] ELSE ch

\* mutant: the decrement without its { $gt: 0 } guard
DecParticipantsUnguarded(ch, c) ==
    IF c \in DOMAIN ch THEN [ch EXCEPT ![c].participants = @ - 1] ELSE ch

\* challengesCollection.updateOne({ _id: c, participants: { $gt: 0 } }, { $inc: { participants: -1 } })
DecParticipants(ch, c) ==
    IF c \in DOMAIN ch /\ ch[c].participants > 0 THEN [ch EXCEPT ![c].participants = @ - 1] ELSE ch

\* mutant: the clamp without its upper limit
ClampNoUpper(p) == Max(0, p)

\* Math.min(100, Math.max(0, progress))
Clamp(p) == Min(100, Max(0, p))

\* updates.progress >= 100 ? 'Finished' : 'Ongoing'
StatusOf(p) == IF p >= 100 THEN "Finished" ELSE "Ongoing"

\* const updates = {}; if (typeof progress === 'number') { updates.progress = ...; updates.status = ... }
ProgressUpdates(p) ==
    IF IsNumber(p)
    THEN [hasProgress |-> TRUE, progress |-> Clamp(p.v), status |-> StatusOf(Clamp(p.v))]
    ELSE [hasProgress |-> FALSE]

\* { date: new Date(), value: Number(addLogValue) }
LogEntry(t, a) == [date |-> t, value |-> a.v]

\* mutant: the ownership check lets every caller through
IsOwnerAnyone(uc, u) == TRUE

\* uc.userId !== req.user.email is false
IsOwner(uc, u) == uc.userId = u

\* mutant: the creator check lets every caller through
IsCreatorAnyone(existing, u) == TRUE

\* existing.createdBy !== req.user.email is false
IsCreator(existing, u) == existing.createdBy = u

\* mutant: the entry is put at the front of the array
PushLogFront(uc, e, entry) ==
    IF e \in DOMAIN uc THEN [uc EXCEPT ![e].progressLogs = <<entry>> \o @] ELSE uc

\* mutant: the array is written whole ($set) and holds the new entry only
PushLogSet(uc, e, entry) ==
    IF e \in DOMAIN uc THEN [uc EXCEPT ![e].progressLogs = <<entry>>] ELSE uc

\* mutant: the write is an upsert, a missing document is created around the entry
PushLogUpsert(uc, e, entry) ==
    IF e \in DOMAIN uc THEN [uc EXCEPT ![e].progressLogs = Append(@, entry)]
    ELSE InsertOne(uc, e, [NewUserChallenge("u1", 1, entry.date)
                              EXCEPT !.progressLogs = <<entry>>])

\* updateOne({ _id: e }, { $push: { progressLogs: entry } })
PushLog(uc, e, entry) ==
    IF e \in DOMAIN uc THEN [uc EXCEPT ![e].progressLogs = Append(@, entry)] ELSE uc

\* mutant: a call without a numeric progress writes progress 0
SetUpdatesDefault(uc, e, updates, t) ==
    IF e \notin DOMAIN uc THEN uc
    ELSE IF updates.hasProgress
    THEN [uc EXCEPT ![e].progress = updates.progress, ![e].status = updates.status,
                    ![e].lastUpdated = t]
    ELSE [uc EXCEPT ![e].progress = 0, ![e].status = "Ongoing", ![e].lastUpdated = t]

\* mutant: the write replaces the log array as well
SetUpdatesClearLogs(uc, e, updates, t) ==
    IF e \notin DOMAIN uc THEN uc
    ELSE IF updates.hasProgress
    THEN [uc EXCEPT ![e].progress = updates.progress, ![e].status = updates.status,
                    ![e].progressLogs = <<>>, ![e].lastUpdated = t]
    ELSE [uc EXCEPT ![e].lastUpdated = t]

\* mutant: lastUpdated is written only together with a numeric progress
SetUpdatesNoTouch(uc, e, updates, t) ==
    IF e \notin DOMAIN uc THEN uc
    ELSE IF updates.hasProgress
    THEN [uc EXCEPT ![e].progress = updates.progress, ![e].status = updates.status,
                    ![e].lastUpdated = t]
    ELSE uc

\* updateOne({ _id: e }, { $set: updates })
SetUpdates(uc, e, updates, t) ==
    IF e \notin DOMAIN uc THEN uc
    ELSE IF updates.hasProgress
    THEN [uc EXCEPT ![e].progress = updates.progress, ![e].status = updates.status,
                    ![e].lastUpdated = t]
    ELSE [uc EXCEPT ![e].lastUpdated = t]

\* challengesCollection.updateOne(filter, { $set: updatedData }): every field of the
\* request body is written as it came
SetChallenge(ch, c, body) ==
    IF c \notin DOMAIN ch THEN ch
    ELSE [ch EXCEPT ![c].participants =
                        IF body.participants # Absent THEN body.participants.v ELSE @,
                    ![c].startDate = IF body.startDate # Absent THEN body.startDate ELSE @,
                    ![c].endDate = IF body.endDate # Absent THEN body.endDate ELSE @]

(* --------------------------- POST /api/challenges ---------------------- *)
\* new Date(x): a Date for text that parses, an Invalid Date for any other text
InvalidDate == [t |-> "InvalidDate"]
NewDate(x) == IF x.t = "dateText" THEN [t |-> "Date", v |-> x.v] ELSE InvalidDate

\* a <= b on two Dates: false when either is an Invalid Date (NaN)
DateLeq(a, b) == a # InvalidDate /\ b # InvalidDate /\ a.v <= b.v

\* if (!body[f]) return res.status(400)
MissingRequired(sd, ed) == sd = Absent \/ ed = Absent

\* new Date(body.endDate) <= new Date(body.startDate)
EndNotAfterStart(sd, ed) == DateLeq(NewDate(ed), NewDate(sd))

NewChallenge(u, p, sd, ed) ==
    [participants |-> NumberOrZero(p), createdBy |-> u,
     startDate |-> NewDate(sd), endDate |-> NewDate(ed)]

\* the required-field and date checks (400); await challengesCollection.insertOne(newChallenge);
\* res.status(201)
CreateChallenge(lim, u, p, sd, ed) ==
    /\ CanAccept(lim)
    /\ nextChallengeId <= MaxChallenges
    /\ issued' = issued + 1
    /\ IF MissingRequired(sd, ed) \/ EndNotAfterStart(sd, ed)
       THEN /\ AnswerAtOnce(Call("create", u, nextChallengeId, 400, NoDoc, Before(lim)))
            /\ UNCHANGED <<challenges, nextChallengeId>>
       ELSE /\ challenges' = InsertOne(challenges, nextChallengeId, NewChallenge(u, p, sd, ed))
            /\ nextChallengeId' = nextChallengeId + 1
            /\ AnswerAtOnce(Call("create", u, nextChallengeId, 201, NoDoc, Before(lim)))
    /\ UNCHANGED <<userChallenges, nextEnrollmentId, now, calls>>

(* --------------------------- PATCH /api/challenges/:id ----------------- *)
\* const existing = await challengesCollection.findOne(filter); 404 / 403 checks
PatchFind(lim, u, c, p, sd, ed) ==
    /\ CanAccept(lim)
    /\ issued' = issued + 1
    /\ LET existing == FindOne(challenges, c)
       IN IF existing = NoDoc
          THEN AnswerAtOnce(Call("patch", u, c, 404, NoDoc, Before(lim)))
          ELSE IF ~IsCreator(existing, u)
          THEN AnswerAtOnce(Call("patch", u, c, 403, NoDoc, Before(lim)))
          ELSE Accept([pc |-> "patchSet", kind |-> "patch", caller |-> u, id |-> c,
                       body |-> [participants |-> p, startDate |-> sd, endDate |-> ed],
                       pre |-> Before(lim)])
    /\ UNCHANGED <<stores, now, calls>>

\* await challengesCollection.updateOne(filter, { $set: updatedData }); res.json
PatchSet(r) ==
    /\ r.pc = "patchSet"
    /\ challenges' = SetChallenge(challenges, r.id, r.body)
    /\ Answer(r, Call("patch", r.caller, r.id, 200, NoDoc, r.pre))
    /\ UNCHANGED <<nextChallengeId, userChallenges, nextEnrollmentId, now, issued, calls>>

(* --------------------------- DELETE /api/challenges/:id ---------------- *)
\* const existing = await challengesCollection.findOne(filter); 404 / 403 checks
DeleteFind(lim, u, c) ==
    /\ CanAccept(lim)
    /\ issued' = issued + 1
    /\ LET existing == FindOne(challenges, c)
       IN IF existing = NoDoc
          THEN AnswerAtOnce(Call("delete", u, c, 404, NoDoc, Before(lim)))
          ELSE IF ~IsCreator(existing, u)
          THEN AnswerAtOnce(Call("delete", u, c, 403, NoDoc, Before(lim)))
          ELSE Accept([pc |-> "deleteDelete", kind |-> "delete", caller |-> u, id |-> c,
                       pre |-> Before(lim)])
    /\ UNCHANGED <<stores, now, calls>>

\* mutant: the deletion takes the Enrollments of the Challenge with it
DeleteDeleteCascade(r) ==
    /\ r.pc = "deleteDelete"
    /\ challenges' = DeleteOne(challenges, r.id)
    /\ userChallenges' = [e \in {x \in DOMAIN userChallenges :
                                    userChallenges[x].challengeId # r.id} |-> userChallenges[e]]
    /\ Answer(r, Call("delete", r.caller, r.id, 200, NoDoc, r.pre))
    /\ UNCHANGED <<nextChallengeId, nextEnrollmentId, now, issued, calls>>

\* await challengesCollection.deleteOne(filter); res.json
DeleteDelete(r) ==
    /\ r.pc = "deleteDelete"
    /\ challenges' = DeleteOne(challenges, r.id)
    /\ Answer(r, Call("delete", r.caller, r.id, 200, NoDoc, r.pre))
    /\ UNCHANGED <<nextChallengeId, userChallenges, nextEnrollmentId, now, issued, calls>>

(* ------------------------ POST /api/challenges/join/:id ---------------- *)
\* const challenge = await challengesCollection.findOne(challengeFilter); 404 check
JoinFindChallenge(lim, u, c) ==
    /\ CanAccept(lim)
    /\ nextEnrollmentId + PendingInserts <= MaxEnrollments
    /\ issued' = issued + 1
    /\ IF ChallengeNotFound(FindOne(challenges, c))
       THEN AnswerAtOnce(Call("join", u, c, 404, NoDoc, Before(lim)))
       ELSE Accept([pc |-> "joinFindExisting", kind |-> "join", caller |-> u, id |-> c,
                    pre |-> Before(lim)])
    /\ UNCHANGED <<stores, now, calls>>

\* const exists = await userChallengesCollection.findOne({ userId, challengeId });
\* 'Already joined' check; const uc = { ... }
JoinFindExisting(r) ==
    /\ r.pc = "joinFindExisting"
    /\ LET exists == FindEnrollment(userChallenges, r.caller, r.id)
       IN IF exists # NoDoc
          THEN Answer(r, Call("join", r.caller, r.id, 200, exists, r.pre))
          ELSE Continue(r, [pc |-> "joinInsert", kind |-> "join", caller |-> r.caller,
                            id |-> r.id, pre |-> r.pre,
                            uc |-> NewUserChallenge(r.caller, r.id, now)])
    /\ UNCHANGED <<stores, now, issued, calls>>

\* const insertResult = await userChallengesCollection.insertOne(uc)
JoinInsert(r) ==
    /\ r.pc = "joinInsert"
    /\ userChallenges' = InsertUserChallenge(userChallenges, nextEnrollmentId, r.uc)
    /\ nextEnrollmentId' = nextEnrollmentId + 1
    /\ calls' = InsertOne(calls, nextEnrollmentId, <<>>)
    /\ Continue(r, [pc |-> "joinInc", kind |-> "join", caller |-> r.caller, id |-> r.id,
                    pre |-> r.pre, uc |-> r.uc, insertedId |-> nextEnrollmentId])
    /\ UNCHANGED <<challenges, nextChallengeId, now, issued>>

\* await challengesCollection.updateOne({ _id }, { $inc: { participants: 1 } }); res.status(201)
JoinInc(r) ==
    /\ r.pc = "joinInc"
    /\ challenges' = IncParticipants(challenges, r.id)
    /\ Answer(r, Call("join", r.caller, r.id, 201, [_id |-> r.insertedId, doc |-> r.uc], r.pre))
    /\ UNCHANGED <<nextChallengeId, userChallenges, nextEnrollmentId, now, issued, calls>>

(* ------------------- PATCH /api/user-challenges/:id/progress ----------- *)
\* const uc = await userChallengesCollection.findOne({ _id }); 404 / 403 checks;
\* const updates = {...}; without a numeric addLogValue also updates.lastUpdated = new Date()
ProgressFind(lim, u, e, p, a) ==
    /\ CanAccept(lim)
    /\ issued' = issued + 1
    /\ LET uc == FindOne(userChallenges, e)
       IN IF uc = NoDoc
          THEN AnswerAtOnce(Call("progress", u, e, 404, NoDoc, BeforeProgress(lim, p, a)))
          ELSE IF ~IsOwner(uc, u)
          THEN AnswerAtOnce(Call("progress", u, e, 403, NoDoc, BeforeProgress(lim, p, a)))
          ELSE IF IsNumber(a)
          THEN Accept([pc |-> "progressPush", kind |-> "progress", caller |-> u, id |-> e,
                       pre |-> BeforeProgress(lim, p, a), updates |-> ProgressUpdates(p),
                       logEntry |-> LogEntry(now, a)])
          ELSE Accept([pc |-> "progressSet", kind |-> "progress", caller |-> u, id |-> e,
                       pre |-> BeforeProgress(lim, p, a), updates |-> ProgressUpdates(p),
                       logEntry |-> NoDoc, lastUpdated |-> now])
    /\ UNCHANGED <<stores, now, calls>>

\* await userChallengesCollection.updateOne({ _id }, { $push: { progressLogs: ... } });
\* updates.lastUpdated = new Date()
ProgressPush(r) ==
    /\ r.pc = "progressPush"
    /\ userChallenges' = PushLog(userChallenges, r.id, r.logEntry)
    /\ Continue(r, [pc |-> "progressSet", kind |-> "progress", caller |-> r.caller, id |-> r.id,
                    pre |-> r.pre, updates |-> r.updates, logEntry |-> r.logEntry,
                    lastUpdated |-> now])
    /\ UNCHANGED <<challenges, nextChallengeId, nextEnrollmentId, now, issued, calls>>

\* const result = await userChallengesCollection.updateOne({ _id }, { $set: updates })
ProgressSet(r) ==
    /\ r.pc = "progressSet"
    /\ userChallenges' = SetUpdates(userChallenges, r.id, r.updates, r.lastUpdated)
    /\ Continue(r, [pc |-> "progressRead", kind |-> "progress", caller |-> r.caller,
                    id |-> r.id, pre |-> r.pre, logEntry |-> r.logEntry])
    /\ UNCHANGED <<challenges, nextChallengeId, nextEnrollmentId, now, issued, calls>>

\* const updated = await userChallengesCollection.findOne({ _id }); res.json
ProgressRead(r) ==
    /\ r.pc = "progressRead"
    /\ Answer(r, Call("progress", r.caller, r.id, 200, FindOne(userChallenges, r.id), r.pre))
    /\ calls' = IF r.logEntry # NoDoc /\ r.id \in DOMAIN calls
                THEN [calls EXCEPT ![r.id] = Append(@, r.logEntry.value)] ELSE calls
    /\ UNCHANGED <<stores, now, issued>>

(* ----------------------- DELETE /api/user-challenges/:id --------------- *)
\* const uc = await userChallengesCollection.findOne({ _id }); 404 / 403 checks
LeaveFind(lim, u, e) ==
    /\ CanAccept(lim)
    /\ issued' = issued + 1
    /\ LET uc == FindOne(userChallenges, e)
       IN IF uc = NoDoc
          THEN AnswerAtOnce(Call("leave", u, e, 404, NoDoc, Before(lim)))
          ELSE IF ~IsOwner(uc, u)
          THEN AnswerAtOnce(Call("leave", u, e, 403, NoDoc, Before(lim)))
          ELSE Accept([pc |-> "leaveDelete", kind |-> "leave", caller |-> u, id |-> e,
                       pre |-> Before(lim), uc |-> uc])
    /\ UNCHANGED <<stores, now, calls>>

\* await userChallengesCollection.deleteOne({ _id })
LeaveDelete(r) ==
    /\ r.pc = "leaveDelete"
    /\ userChallenges' = DeleteOne(userChallenges, r.id)
    /\ calls' = DeleteOne(calls, r.id)
    /\ Continue(r, [r EXCEPT !.pc = "leaveDec"])
    /\ UNCHANGED <<challenges, nextChallengeId, nextEnrollmentId, now, issued>>

\* await challengesCollection.updateOne({ _id: uc.challengeId, participants: { $gt: 0 } },
\*                                      { $inc: { participants: -1 } }); res.json
LeaveDec(r) ==
    /\ r.pc = "leaveDec"
    /\ challenges' = DecParticipants(challenges, r.uc.challengeId)
    /\ Answer(r, Call("leave", r.caller, r.id, 200, NoDoc, r.pre))
    /\ UNCHANGED <<nextChallengeId, userChallenges, nextEnrollmentId, now, issued, calls>>

(* ------------------- a store call that throws: catch (err) -------------- *)
\* challengesCollection.updateOne(... $inc ...) of a Join throws: the catch block
\* answers 500, the user-challenge inserted before stays
JoinIncFails(r) ==
    /\ r.pc = "joinInc"
    /\ Answer(r, Call("join", r.caller, r.id, 500, NoDoc, r.pre))
    /\ UNCHANGED <<stores, now, issued, calls>>

\* challengesCollection.updateOne(... $inc: -1 ...) of a Leave throws: the catch block
\* answers 500, the user-challenge deleted before stays deleted
LeaveDecFails(r) ==
    /\ r.pc = "leaveDec"
    /\ Answer(r, Call("leave", r.caller, r.id, 500, NoDoc, r.pre))
    /\ UNCHANGED <<stores, now, issued, calls>>

(* ---------------------- GET /api/user-challenges/me -------------------- *)
\* String(uc.challengeId): the hexadecimal text of an ObjectId
HexString(id) == [hex |-> id]

\* ObjectId.isValid(s)
IsValidObjectId(s) == DOMAIN s = {"hex"}

\* new ObjectId(s)
ObjectIdOf(s) == s.hex

\* mutant: the find has no userId filter
FindByUserAll(uc, u) == uc

\* userChallengesCollection.find({ userId: userEmail }).toArray()
FindByUser(uc, u) == [e \in {x \in DOMAIN uc : uc[x].userId = u} |-> uc[e]]

\* the challenge lookup of one user-challenge: by ObjectId when the text of its
\* challengeId is a valid ObjectId, by that text otherwise; null when nothing is found
LookupChallenge(ch, challengeId) ==
    IF IsValidObjectId(HexString(challengeId))
    THEN FindOne(ch, ObjectIdOf(HexString(challengeId)))
    ELSE NoDoc

\* populated: { ...uc, challenge: ch } for every user-challenge found
Populated(ucs, found) == [e \in DOMAIN ucs |-> [doc |-> ucs[e], challenge |-> found[e]]]

\* const ucs = await userChallengesCollection.find({ userId }).toArray(); Promise.all
\* over no user-challenge resolves without a store call
ListFind(lim, u) ==
    /\ CanAccept(lim)
    /\ issued' = issued + 1
    /\ LET ucs == FindByUser(userChallenges, u)
       IN IF DOMAIN ucs = {}
          THEN AnswerAtOnce(Call("list", u, 0, 200, Populated(ucs, <<>>), Before(lim)))
          ELSE Accept([pc |-> "listLookup", kind |-> "list", caller |-> u, id |-> 0,
                       pre |-> Before(lim), ucs |-> ucs, found |-> <<>>])
    /\ UNCHANGED <<stores, now, calls>>

\* one of the challengesCollection.findOne calls that Promise.all runs, in any order;
\* res.json(populated) after the last of them
ListLookup(r) ==
    /\ r.pc = "listLookup"
    /\ \E e \in DOMAIN r.ucs \ DOMAIN r.found :
          LET found == InsertOne(r.found, e, LookupChallenge(challenges, r.ucs[e].challengeId))
          IN IF DOMAIN found = DOMAIN r.ucs
             THEN Answer(r, Call("list", r.caller, 0, 200, Populated(r.ucs, found), r.pre))
             ELSE Continue(r, [r EXCEPT !.found = found])
    /\ UNCHANGED <<stores, now, issued, calls>>

(* ------------------------------ GET /api/stats ------------------------- *)
\* mutant: the $match stage lets every status through
MatchStatusAny(uc, st) == DOMAIN uc

\* { $match: { status: st } }
MatchStatus(uc, st) == {e \in DOMAIN uc : uc[e].status = st}

\* mutant: the group counts the matched documents
GroupUsersPerDocument(uc, matched) == matched

\* { $group: { _id: null, users: { $addToSet: '$userId' } } }
GroupUsers(uc, matched) == {uc[e].userId : e \in matched}

\* the first pipeline: no document when nothing matches, else one with the $size of the set
UniqAgg(uc) ==
    IF MatchStatus(uc, "Ongoing") = {} THEN <<>>
    ELSE <<[count |-> Cardinality(GroupUsers(uc, MatchStatus(uc, "Ongoing")))]>>

\* (uniqAgg[0] && uniqAgg[0].count) || 0
ActiveParticipantsOf(agg) == IF Len(agg) = 0 \/ agg[1].count = 0 THEN 0 ELSE agg[1].count

\* mutant: only the log entries of Ongoing user-challenges are unwound
UnwindOngoing(uc) ==
    UNION {{<<e, i>> : i \in 1..Len(uc[e].progressLogs)} :
              e \in {x \in DOMAIN uc : uc[x].status = "Ongoing"}}

\* { $unwind: { path: '$progressLogs', preserveNullAndEmptyArrays: false } }: one
\* document per log entry, none for an empty array
Unwind(uc) == UNION {{<<e, i>> : i \in 1..Len(uc[e].progressLogs)} : e \in DOMAIN uc}

\* { $sum: { $toDouble: '$progressLogs.value' } } over the unwound documents
RECURSIVE SumValues(_, _)
SumValues(uc, entries) ==
    IF entries = {} THEN 0
    ELSE LET p == CHOOSE x \in entries : TRUE
         IN uc[p[1]].progressLogs[p[2]].value + SumValues(uc, entries \ {p})

\* the second pipeline: no document when there is no log entry, else one with the sum
SumAgg(uc) ==
    IF Unwind(uc) = {} THEN <<>> ELSE <<[totalValue |-> SumValues(uc, Unwind(uc))]>>

\* (sumAgg[0] && sumAgg[0].totalValue) || 0
TotalValueOf(agg) == IF Len(agg) = 0 \/ agg[1].totalValue = 0 THEN 0 ELSE agg[1].totalValue

\* await Promise.all([challengesCollection.countDocuments({}), ...])
StatsCount(lim) ==
    /\ CanAccept(lim)
    /\ issued' = issued + 1
    /\ Accept([pc |-> "statsUniq", kind |-> "stats", caller |-> "anyone", id |-> 0,
               pre |-> Before(lim), totalChallenges |-> Cardinality(DOMAIN challenges)])
    /\ UNCHANGED <<stores, now, calls>>

\* const uniqAgg = await userChallengesCollection.aggregate([...]).toArray()
StatsUniq(r) ==
    /\ r.pc = "statsUniq"
    /\ Continue(r, [pc |-> "statsSum", kind |-> "stats", caller |-> r.caller, id |-> r.id,
                    pre |-> r.pre, totalChallenges |-> r.totalChallenges,
                    activeParticipants |-> ActiveParticipantsOf(UniqAgg(userChallenges))])
    /\ UNCHANGED <<stores, now, issued, calls>>

\* const sumAgg = await userChallengesCollection.aggregate([...]).toArray(); res.json
StatsSum(r) ==
    /\ r.pc = "statsSum"
    /\ Answer(r, Call("stats", r.caller, r.id, 200,
                      [totalChallenges |-> r.totalChallenges,
                       activeParticipants |-> r.activeParticipants,
                       totalPlasticReducedKg |-> TotalValueOf(SumAgg(userChallenges))],
                      r.pre))
    /\ UNCHANGED <<stores, now, issued, calls>>

(* ------------------------------ clock ---------------------------------- *)
Tick ==
    /\ now < MaxClock
    /\ now' = now + 1
    /\ UNCHANGED <<stores, reqs, issued, last, prev, calls, hist, app>>

(* --------------------------- specification ----------------------------- *)
\* The database outlives the server process: the handlers start on empty collections,
\* on one challenge that its creator u1 posted without a participants field, or on that
\* challenge after u1 joined it (the states CreateChallenge and a Join lead to).
SeedChallenges == InsertOne(<<>>, 1, NewChallenge("u1", Absent, StartDateInput, EndDateInput))
SeedUserChallenges == InsertOne(<<>>, 1, NewUserChallenge("u1", 1, 0))

\* the layers the module registers when it is loaded, in the order of the app.use and
\* app.get calls; attachRoutes is the middleware that awaits attachRoutes()
LoadedStack == <<"cors", "json", "GET /", "attachRoutes", "notFound", "errorHandler">>

\* the entry point after the module is loaded: nothing attached, no cached client
AppLoaded == [routesAttached |-> FALSE, stack |-> LoadedStack, cached |-> FALSE]

\* the history variables at the start
InitHistory ==
    /\ reqs = EmptyBag
    /\ issued = 0
    /\ last = NoCall
    /\ prev = NoCall
    /\ calls = [e \in DOMAIN userChallenges |->
                   [i \in 1..Len(userChallenges[e].progressLogs) |->
                       userChallenges[e].progressLogs[i].value]]
    /\ hist = [ch |-> challenges, uc |-> userChallenges, trace |-> {}]

Init ==
    /\ \/ /\ challenges = <<>>
          /\ nextChallengeId = 1
          /\ userChallenges = <<>>
          /\ nextEnrollmentId = 1
       \/ /\ challenges = SeedChallenges
          /\ nextChallengeId = 2
          /\ userChallenges = <<>>
          /\ nextEnrollmentId = 1
       \/ /\ challenges = IncParticipants(SeedChallenges, 1)
          /\ nextChallengeId = 2
          /\ userChallenges = SeedUserChallenges
          /\ nextEnrollmentId = 2
    /\ now = 0
    /\ InitHistory
    /\ app = AppLoaded

Step(lim) ==
    \/ \E u \in Users, p \in CreateParticipantsInputs :
          CreateChallenge(lim, u, p, StartDateInput, EndDateInput)
    \/ \E u \in Users, c \in ChallengeIds, p \in PatchParticipantsInputs :
          PatchFind(lim, u, c, p, Absent, Absent)
    \/ \E r \in BagToSet(reqs) : PatchSet(r)
    \/ \E u \in Users, c \in ChallengeIds : DeleteFind(lim, u, c)
    \/ \E r \in BagToSet(reqs) : DeleteDelete(r)
    \/ \E u \in Users, c \in ChallengeIds : JoinFindChallenge(lim, u, c)
    \/ \E r \in BagToSet(reqs) : JoinFindExisting(r)
    \/ \E r \in BagToSet(reqs) : JoinInsert(r)
    \/ \E r \in BagToSet(reqs) : JoinInc(r)
    \/ \E u \in Users, e \in EnrollmentIds, p \in ProgressInputs, a \in LogInputs :
          ProgressFind(lim, u, e, p, a)
    \/ \E r \in BagToSet(reqs) : ProgressPush(r)
    \/ \E r \in BagToSet(reqs) : ProgressSet(r)
    \/ \E r \in BagToSet(reqs) : ProgressRead(r)
    \/ \E u \in Users, e \in EnrollmentIds : LeaveFind(lim, u, e)
    \/ \E r \in BagToSet(reqs) : LeaveDelete(r)
    \/ \E r \in BagToSet(reqs) : LeaveDec(r)
    \/ Tick

\* requests overlap: up to MaxInFlight handlers interleave at their awaits
Next == Step(MaxInFlight)

\* requests arrive one after the other: a request is accepted when no handler is running
NextSeq == Step(1)

Spec == Init /\ [][Next]_vars
SpecSeq == Init /\ [][NextSeq]_vars

(* ----------------- the read handlers over a populated database --------- *)
StoredChallengeIds == {1, 2}
StoredEnrollmentIds == 1..MaxStoredEnrollments

\* what UpdateProgress calls leave in a user-challenge: nothing yet, two log entries and
\* no progress, or one log entry and progress 100
StoredProgress ==
    <<[status |-> "Ongoing", progress |-> 0, progressLogs |-> <<>>],
      [status |-> "Ongoing", progress |-> 0,
       progressLogs |-> <<LogEntry(0, Num(5)), LogEntry(0, Num(3))>>],
      [status |-> StatusOf(Clamp(150)), progress |-> Clamp(150),
       progressLogs |-> <<LogEntry(0, Num(10))>>]>>

\* user-challenge e was inserted by a Join of u1 (e = 1, 2, 5, ...) or u2 (e = 3, 4, ...)
\* on challenge 1 (odd e) or 2 (even e)
StoredUserOf(e) == IF ((e - 1) \div 2) % 2 = 0 THEN "u1" ELSE "u2"
StoredChallengeOf(e) == ((e - 1) % 2) + 1

StoredUserChallenge(e, k) ==
    [NewUserChallenge(StoredUserOf(e), StoredChallengeOf(e), 0)
        EXCEPT !.status = StoredProgress[k].status,
               !.progress = StoredProgress[k].progress,
               !.progressLogs = StoredProgress[k].progressLogs]

\* The handlers start on a database that earlier Joins, UpdateProgress calls, Leaves
\* and challenge deletions left behind: any of the user-challenges 1..MaxStoredEnrollments
\* is there, any of the two challenges is there, counters as the Joins left them.
InitRead ==
    /\ \E present \in SUBSET StoredEnrollmentIds, existing \in SUBSET StoredChallengeIds :
          \E k \in [present -> DOMAIN StoredProgress] :
              /\ userChallenges = [e \in present |-> StoredUserChallenge(e, k[e])]
              /\ challenges =
                    [c \in existing |->
                        [NewChallenge("u1", Absent, StartDateInput, EndDateInput)
                            EXCEPT !.participants =
                                Cardinality({e \in present : StoredChallengeOf(e) = c})]]
    /\ nextChallengeId = 3
    /\ nextEnrollmentId = MaxStoredEnrollments + 1
    /\ now = 0
    /\ InitHistory
    /\ app = AppLoaded

\* reads and Leaves, one request at a time
NextRead ==
    \/ \E u \in Users : ListFind(1, u)
    \/ \E r \in BagToSet(reqs) : ListLookup(r)
    \/ StatsCount(1)
    \/ \E r \in BagToSet(reqs) : StatsUniq(r)
    \/ \E r \in BagToSet(reqs) : StatsSum(r)
    \/ \E u \in Users, e \in StoredEnrollmentIds : LeaveFind(1, u, e)
    \/ \E r \in BagToSet(reqs) : LeaveDelete(r)
    \/ \E r \in BagToSet(reqs) : LeaveDec(r)
    \/ \E u \in Users, c \in StoredChallengeIds : DeleteFind(1, u, c)
    \/ \E r \in BagToSet(reqs) : DeleteDelete(r)

SpecRead == InitRead /\ [][NextRead]_vars

(* --------------------- overlapping Joins and Leaves only --------------- *)
\* one challenge nobody joined yet, or the same challenge after u1 and u2 joined it
InitRace ==
    /\ nextChallengeId = 2
    /\ \/ /\ challenges = SeedChallenges
          /\ userChallenges = <<>>
          /\ nextEnrollmentId = 1
       \/ /\ challenges = IncParticipants(IncParticipants(SeedChallenges, 1), 1)
          /\ userChallenges = InsertOne(SeedUserChallenges, 2, NewUserChallenge("u2", 1, 0))
          /\ nextEnrollmentId = 3
    /\ now = 0
    /\ InitHistory
    /\ app = AppLoaded

NextRace ==
    \/ \E u \in Users, c \in ChallengeIds : JoinFindChallenge(MaxInFlight, u, c)
    \/ \E r \in BagToSet(reqs) : JoinFindExisting(r)
    \/ \E r \in BagToSet(reqs) : JoinInsert(r)
    \/ \E r \in BagToSet(reqs) : JoinInc(r)
    \/ \E u \in Users, e \in EnrollmentIds : LeaveFind(MaxInFlight, u, e)
    \/ \E r \in BagToSet(reqs) : LeaveDelete(r)
    \/ \E r \in BagToSet(reqs) : LeaveDec(r)

SpecRace == InitRace /\ [][NextRace]_vars

(* ------------- one request at a time, counter updates may throw -------- *)
NextFail ==
    \/ \E u \in Users, c \in ChallengeIds : JoinFindChallenge(1, u, c)
    \/ \E r \in BagToSet(reqs) : JoinFindExisting(r)
    \/ \E r \in BagToSet(reqs) : JoinInsert(r)
    \/ \E r \in BagToSet(reqs) : JoinInc(r)
    \/ \E r \in BagToSet(reqs) : JoinIncFails(r)
    \/ \E u \in Users, e \in EnrollmentIds : LeaveFind(1, u, e)
    \/ \E r \in BagToSet(reqs) : LeaveDelete(r)
    \/ \E r \in BagToSet(reqs) : LeaveDec(r)
    \/ \E r \in BagToSet(reqs) : LeaveDecFails(r)
    \/ \E u \in Users, c \in ChallengeIds, p \in PatchParticipantsInputs :
          PatchFind(1, u, c, p, Absent, Absent)
    \/ \E r \in BagToSet(reqs) : PatchSet(r)

SpecFail == Init /\ [][NextFail]_vars

(* ------------------------------ properties ----------------------------- *)
EnrollmentsOf(uc, c) == {e \in DOMAIN uc : uc[e].challengeId = c}
LogValues(logs) == [i \in 1..Len(logs) |-> logs[i].value]
IsPrefix(a, b) == Len(a) <= Len(b) /\ \A i \in 1..Len(a) : a[i] = b[i]

\* the last two answered calls are Joins of the same user on the same challenge, both
\* past the NotFound check, and nothing runs now (SpecSeq: nothing ran in between)
TwoJoinsInARow ==
    /\ AllIdle
    /\ last.kind = "join" /\ prev.kind = "join"
    /\ last.caller = prev.caller /\ last.id = prev.id
    /\ last.status \in {200, 201} /\ prev.status \in {200, 201}

OneEnrollmentCounterPlusOne ==
    /\ Cardinality(Matching(userChallenges, last.caller, last.id)) = 1
    /\ challenges[last.id].participants = prev.participants + 1

\* C1 as stated: after two Joins in a row by any user u on an existing challenge c there
\* is exactly one Enrollment for (u, c) and participants is 1 higher than before the first.
C1_TwoJoinsAnyUser == TwoJoinsInARow => OneEnrollmentCounterPlusOne

\* C1 amended: the same, for a user who had no Enrollment for c before the first Join.
C1_TwoJoinsNewUser == TwoJoinsInARow /\ prev.enrolled = 0 => OneEnrollmentCounterPlusOne

C1_Witness == TwoJoinsInARow /\ prev.enrolled = 0 /\ prev.status = 201 /\ last.status = 200

\* C2: the Enrollment Store holds at most one Enrollment per (userId, challengeId) pair,
\* in every reachable state under any interleaving of requests.
C2_AtMostOneEnrollmentPerPair ==
    \A e1, e2 \in DOMAIN userChallenges :
        (/\ userChallenges[e1].userId = userChallenges[e2].userId
         /\ userChallenges[e1].challengeId = userChallenges[e2].challengeId) => e1 = e2

NoJoinOrLeaveInFlight == \A r \in BagToSet(reqs) : r.kind \notin {"join", "leave"}

\* C3: whenever no Join or Leave is in flight, every Challenge's participants equals the
\* number of Enrollments whose challengeId references it.
C3_CounterConsistency ==
    NoJoinOrLeaveInFlight =>
        \A c \in DOMAIN challenges :
            challenges[c].participants = Cardinality(EnrollmentsOf(userChallenges, c))

\* C4: a Challenge's participants counter is never negative.
C4_ParticipantsNeverNegative == \A c \in DOMAIN challenges : challenges[c].participants >= 0

\* C5: every Enrollment has 0 <= progress <= 100 and status Finished exactly when
\* progress >= 100 (otherwise Ongoing), in every state, also between the store writes of
\* overlapping UpdateProgress calls.
C5_ProgressAndStatus ==
    \A e \in DOMAIN userChallenges :
        /\ 0 <= userChallenges[e].progress /\ userChallenges[e].progress <= 100
        /\ userChallenges[e].status \in {"Ongoing", "Finished"}
        /\ userChallenges[e].status = "Finished" <=> userChallenges[e].progress >= 100

\* two UpdateProgress calls on one Enrollment overlap: one has pushed its log entry and
\* not yet written its fields, the other has already set the Enrollment to Finished
C5_Witness ==
    \E r, q \in BagToSet(reqs) :
        /\ r.pc = "progressSet" /\ r.logEntry # NoDoc /\ q.pc = "progressRead"
        /\ r.id = q.id /\ r.id \in DOMAIN userChallenges
        /\ r.updates.hasProgress /\ r.updates.progress = 0
        /\ userChallenges[r.id].status = "Finished"
        /\ Len(userChallenges[r.id].progressLogs) = 1

\* the last answered call is an UpdateProgress or Leave on an Enrollment that existed and
\* belonged to someone else
LastByNonOwner ==
    /\ AllIdle
    /\ last.kind \in {"progress", "leave"}
    /\ last.id \in DOMAIN last.pre.uc
    /\ last.pre.uc[last.id].userId # last.caller

\* C6: UpdateProgress or Leave on an existing Enrollment by a caller other than its owner
\* answers 403 Forbidden and leaves every Enrollment and every Challenge as it was.
C6_NonOwnerForbidden ==
    LastByNonOwner =>
        /\ last.status = 403
        /\ userChallenges = last.pre.uc
        /\ challenges = last.pre.ch

C6_Witness == LastByNonOwner /\ last.kind = "leave" /\ last.status = 403

\* C7: once the calls have answered, an Enrollment's progressLogs holds exactly the
\* addLogValues of the answered owner calls, in call order; and no step removes, rewrites
\* or reorders an entry of an Enrollment that stays in the store.
C7_AppendOnlyLog ==
    /\ [](AllIdle => \A e \in DOMAIN userChallenges :
                        LogValues(userChallenges[e].progressLogs) = calls[e])
    /\ [][\A e \in DOMAIN userChallenges \cap DOMAIN userChallenges' :
             IsPrefix(userChallenges[e].progressLogs, userChallenges'[e].progressLogs)]_vars

C7_Witness ==
    /\ AllIdle
    /\ \E e \in DOMAIN userChallenges :
          /\ calls[e] = <<3, 5>>
          /\ LogValues(userChallenges[e].progressLogs) = <<3, 5>>

\* the last answered call is a Join of an existing challenge by a user without an
\* Enrollment for it
LastJoinByNewUser ==
    /\ AllIdle
    /\ last.kind = "join"
    /\ last.id \in DOMAIN last.pre.ch
    /\ Matching(last.pre.uc, last.caller, last.id) = {}

\* C8: such a Join answers 201 and adds exactly one Enrollment (status Ongoing, progress
\* 0, empty progressLogs), raises that challenge's participants by exactly 1 and changes
\* no other Enrollment or Challenge.
C8_JoinCreates ==
    LastJoinByNewUser =>
        /\ last.status = 201
        /\ \E n \in DOMAIN userChallenges \ DOMAIN last.pre.uc :
              /\ DOMAIN userChallenges = DOMAIN last.pre.uc \cup {n}
              /\ userChallenges[n].userId = last.caller
              /\ userChallenges[n].challengeId = last.id
              /\ userChallenges[n].status = "Ongoing"
              /\ userChallenges[n].progress = 0
              /\ userChallenges[n].progressLogs = <<>>
              /\ last.body = [_id |-> n, doc |-> userChallenges[n]]
        /\ \A e \in DOMAIN last.pre.uc : userChallenges[e] = last.pre.uc[e]
        /\ challenges = [last.pre.ch EXCEPT ![last.id].participants = @ + 1]

C8_Witness ==
    /\ LastJoinByNewUser /\ last.status = 201
    /\ DOMAIN last.pre.uc # {}
    /\ challenges[last.id].participants = 2

\* the last answered call is a Join of an existing challenge by a user who already had an
\* Enrollment for it
LastJoinByEnrolledUser ==
    /\ AllIdle
    /\ last.kind = "join"
    /\ last.id \in DOMAIN last.pre.ch
    /\ Matching(last.pre.uc, last.caller, last.id) # {}

\* C9: such a Join answers 200 'Already joined' with the existing Enrollment and leaves
\* the Enrollment Store and every participants counter exactly as they were.
C9_JoinAlreadyJoined ==
    LastJoinByEnrolledUser =>
        /\ last.status = 200
        /\ \E e \in Matching(last.pre.uc, last.caller, last.id) :
              last.body = [_id |-> e, doc |-> last.pre.uc[e]]
        /\ userChallenges = last.pre.uc
        /\ challenges = last.pre.ch

\* the existing Enrollment had been worked on before the repeated Join
C9_Witness ==
    /\ LastJoinByEnrolledUser /\ last.status = 200
    /\ last.body.doc.progress = 100
    /\ last.body.doc.progressLogs # <<>>

\* the last answered call is a Leave by the owner of an Enrollment that existed
LastLeaveByOwner ==
    /\ AllIdle
    /\ last.kind = "leave"
    /\ last.id \in DOMAIN last.pre.uc
    /\ last.pre.uc[last.id].userId = last.caller

ParentOfLast == last.pre.uc[last.id].challengeId

\* C10: Leave by the owner removes that Enrollment only, lowers the parent's participants
\* by exactly 1 when it was greater than 0 and leaves it when it was 0; and whenever a
\* Leave is about to decrement, its Enrollment is already gone.
C10_LeaveDeletesThenDecrements ==
    /\ LastLeaveByOwner =>
          /\ last.status = 200
          /\ userChallenges = DeleteOne(last.pre.uc, last.id)
          /\ challenges =
                IF ParentOfLast \in DOMAIN last.pre.ch
                   /\ last.pre.ch[ParentOfLast].participants > 0
                THEN [last.pre.ch EXCEPT ![ParentOfLast].participants = @ - 1]
                ELSE last.pre.ch
    /\ \A r \in BagToSet(reqs) : r.pc = "leaveDec" => r.id \notin DOMAIN userChallenges

\* a Leave on a counter that was already 0
C10_Witness ==
    /\ LastLeaveByOwner /\ last.status = 200
    /\ ParentOfLast \in DOMAIN last.pre.ch
    /\ last.pre.ch[ParentOfLast].participants = 0
    /\ challenges[ParentOfLast].participants = 0

\* the last answered call is a Join of a challenge id that no Challenge had
LastJoinOfMissingChallenge ==
    /\ AllIdle
    /\ last.kind = "join"
    /\ last.id \notin DOMAIN last.pre.ch

\* C11: Join on a challenge id that does not exist answers 404 NotFound, creates no
\* Enrollment and changes no participants counter.
C11_JoinMissingChallenge ==
    LastJoinOfMissingChallenge =>
        /\ last.status = 404
        /\ userChallenges = last.pre.uc
        /\ challenges = last.pre.ch

\* the challenge was deleted by its creator while an Enrollment still referenced it
C11_Witness ==
    /\ LastJoinOfMissingChallenge /\ last.status = 404
    /\ prev.kind = "delete" /\ prev.status = 200 /\ prev.id = last.id
    /\ userChallenges # <<>>

\* the last answered call is an UpdateProgress or Leave on an id that no Enrollment had
LastOnMissingEnrollment ==
    /\ AllIdle
    /\ last.kind \in {"progress", "leave"}
    /\ last.id \notin DOMAIN last.pre.uc

LastProgressByOwner ==
    /\ AllIdle
    /\ last.kind = "progress"
    /\ last.id \in DOMAIN last.pre.uc
    /\ last.pre.uc[last.id].userId = last.caller

\* C13: an UpdateProgress call without a numeric progress (so one that supplies only
\* addLogValue) leaves progress and status as they were, a call without a numeric
\* addLogValue (so one that supplies only progress) leaves progressLogs as it was, and
\* no call changes another Enrollment or any Challenge.
C13_IndependentInputs ==
    LastProgressByOwner =>
        /\ last.status = 200
        /\ DOMAIN userChallenges = DOMAIN last.pre.uc
        /\ ~last.pre.hasProgress =>
              /\ userChallenges[last.id].progress = last.pre.uc[last.id].progress
              /\ userChallenges[last.id].status = last.pre.uc[last.id].status
        /\ ~last.pre.hasLog =>
              userChallenges[last.id].progressLogs = last.pre.uc[last.id].progressLogs
        /\ \A e \in DOMAIN last.pre.uc \ {last.id} : userChallenges[e] = last.pre.uc[e]
        /\ challenges = last.pre.ch

\* only addLogValue on a Finished Enrollment: one more entry, still Finished at 100
C13_Witness ==
    /\ LastProgressByOwner /\ last.status = 200
    /\ ~last.pre.hasProgress /\ last.pre.hasLog
    /\ last.pre.uc[last.id].progress = 100
    /\ userChallenges[last.id].status = "Finished"
    /\ Len(userChallenges[last.id].progressLogs) = Len(last.pre.uc[last.id].progressLogs) + 1

\* the handler whose write a step that changes Enrollment e may be: an UpdateProgress of
\* e about to write its numeric progress
WritesProgress(r, e) == r.pc = "progressSet" /\ r.id = e /\ r.updates.hasProgress

\* C14 as stated: no step lowers the progress of an Enrollment, and no step takes an
\* Enrollment from Finished back to Ongoing.
C14_ProgressMonotonic ==
    [][\A e \in DOMAIN userChallenges \cap DOMAIN userChallenges' :
          /\ userChallenges'[e].progress >= userChallenges[e].progress
          /\ userChallenges[e].status = "Finished" => userChallenges'[e].status = "Finished"]_vars

\* C14 amended: the progress of an Enrollment goes down only by the write of an
\* UpdateProgress call that supplied a lower number (it becomes that number clamped), and
\* a Finished Enrollment returns to Ongoing only by the write of a call that supplied a
\* number below 100.
C14_ProgressFollowsSuppliedNumber ==
    [][\A e \in DOMAIN userChallenges \cap DOMAIN userChallenges' :
          /\ userChallenges'[e].progress < userChallenges[e].progress =>
                \E r \in BagToSet(reqs) :
                    /\ WritesProgress(r, e)
                    /\ userChallenges'[e].progress = r.updates.progress
                    /\ CopiesIn(r, reqs') < CopiesIn(r, reqs)
          /\ (userChallenges[e].status = "Finished" /\ userChallenges'[e].status = "Ongoing") =>
                \E r \in BagToSet(reqs) :
                    /\ WritesProgress(r, e)
                    /\ r.updates.progress < 100
                    /\ CopiesIn(r, reqs') < CopiesIn(r, reqs)]_vars

\* an Enrollment that was Finished at 100 is back at 0 and Ongoing
C14_Witness ==
    /\ AllIdle
    /\ prev.kind = "progress" /\ prev.status = 200
    /\ last.kind = "progress" /\ last.status = 200 /\ last.id = prev.id
    /\ last.body.progress = 0 /\ last.body.status = "Ongoing"
    /\ Len(last.body.progressLogs) = 2

\* the last answered call is a ComputeStats
LastStats == AllIdle /\ last.kind = "stats"

OngoingUsers(uc) == {u \in Users : \E e \in DOMAIN uc : uc[e].userId = u /\ uc[e].status = "Ongoing"}

\* C15: activeParticipants is the number of distinct users that have an Ongoing
\* Enrollment: a user with several Ongoing Enrollments counts once, a user whose
\* Enrollments are all Finished does not count.
C15_ActiveParticipants ==
    LastStats =>
        /\ last.status = 200
        /\ last.body.activeParticipants = Cardinality(OngoingUsers(last.pre.uc))

\* the example of the claim: u1 Ongoing on two challenges, u2 Finished on one, answer 1
C15_Witness ==
    /\ LastStats
    /\ Cardinality({e \in DOMAIN last.pre.uc : last.pre.uc[e].userId = "u1"
                                               /\ last.pre.uc[e].status = "Ongoing"}) = 2
    /\ \E e \in DOMAIN last.pre.uc : last.pre.uc[e].userId = "u2"
    /\ \A e \in DOMAIN last.pre.uc :
          last.pre.uc[e].userId = "u2" => last.pre.uc[e].status = "Finished"
    /\ last.body.activeParticipants = 1

RECURSIVE SumSeq(_)
SumSeq(q) == IF q = <<>> THEN 0 ELSE Head(q) + SumSeq(Tail(q))

\* the sum over the Enrollments of the sum of their log values
RECURSIVE TotalLogged(_, _)
TotalLogged(uc, ids) ==
    IF ids = {} THEN 0
    ELSE LET e == CHOOSE x \in ids : TRUE
         IN SumSeq(LogValues(uc[e].progressLogs)) + TotalLogged(uc, ids \ {e})

\* C16: the total logged quantity is the sum of the value of every progressLogs entry of
\* every Enrollment in the store, whatever its status; an empty log adds 0, and the
\* entries of an Enrollment that a Leave removed are not in the sum.
C16_TotalLoggedQuantity ==
    LastStats =>
        /\ last.status = 200
        /\ last.body.totalPlasticReducedKg = TotalLogged(userChallenges, DOMAIN userChallenges)
        /\ userChallenges = last.pre.uc

\* after the Leave of an Enrollment that had log entries, with a Finished Enrollment and
\* one with an empty log still there: the sum is that of the Finished one alone
C16_Witness ==
    /\ LastStats
    /\ prev.kind = "leave" /\ prev.status = 200
    /\ prev.id \in DOMAIN hist.uc /\ prev.id \notin DOMAIN userChallenges
    /\ Len(hist.uc[prev.id].progressLogs) = 2
    /\ \E e \in DOMAIN userChallenges : userChallenges[e].progressLogs = <<>>
    /\ \E e \in DOMAIN userChallenges : userChallenges[e].status = "Finished"
    /\ last.body.totalPlasticReducedKg = 10

\* C17: ComputeStats answers 200 on any stores; it reports 0 challenges when there is no
\* challenge, 0 active participants when no Enrollment is Ongoing, and a total of 0 when
\* no Enrollment has a log entry.
C17_StatsOnEmptyStores ==
    LastStats =>
        /\ last.status = 200
        /\ last.pre.ch = <<>> => last.body.totalChallenges = 0
        /\ (\A e \in DOMAIN last.pre.uc : last.pre.uc[e].status # "Ongoing") =>
              last.body.activeParticipants = 0
        /\ (\A e \in DOMAIN last.pre.uc : last.pre.uc[e].progressLogs = <<>>) =>
              last.body.totalPlasticReducedKg = 0

\* no challenge and no Enrollment at all
C17_Witness ==
    /\ LastStats /\ last.status = 200
    /\ last.pre.ch = <<>> /\ last.pre.uc = <<>>
    /\ last.body = [totalChallenges |-> 0, activeParticipants |-> 0, totalPlasticReducedKg |-> 0]

\* the last answered call is a ListMine
LastList == AllIdle /\ last.kind = "list"

\* C18: ListMine answers 200 with exactly the Enrollments whose userId is the caller,
\* each with the Challenge its challengeId references, or with null when that Challenge
\* is not in the store.
C18_ListMine ==
    LastList =>
        /\ last.status = 200
        /\ DOMAIN last.body = {e \in DOMAIN last.pre.uc : last.pre.uc[e].userId = last.caller}
        /\ \A e \in DOMAIN last.body :
              /\ last.body[e].doc = last.pre.uc[e]
              /\ last.body[e].challenge =
                    IF last.pre.uc[e].challengeId \in DOMAIN last.pre.ch
                    THEN last.pre.ch[last.pre.uc[e].challengeId] ELSE NoDoc

\* the caller has two Enrollments, one of a challenge that is gone, and somebody else
\* has an Enrollment too
C18_Witness ==
    /\ LastList /\ last.status = 200
    /\ Cardinality(DOMAIN last.body) = 2
    /\ \E e \in DOMAIN last.body : last.body[e].challenge = NoDoc
    /\ \E e \in DOMAIN last.body : last.body[e].challenge # NoDoc
    /\ \E e \in DOMAIN last.pre.uc : last.pre.uc[e].userId # last.caller

\* two Joins of one user on one existing challenge, the user not enrolled at the start,
\* are all the requests there were, and both have answered
TwoJoinsOfOnePair ==
    /\ AllIdle /\ issued = 2
    /\ \E x \in hist.trace :
          /\ hist.trace = {x}
          /\ x.kind = "join"
          /\ x.id \in DOMAIN hist.ch
          /\ Matching(hist.uc, x.caller, x.id) = {}

BothCreated == last.status = 201 /\ prev.status = 201

\* C19: two overlapping Joins of one user on one challenge can both answer 201; whenever
\* they do, the pair has two Enrollments and the counter is 2 higher, and otherwise the
\* pair has one Enrollment and the counter is 1 higher.
C19_JoinRace ==
    TwoJoinsOfOnePair =>
        LET n == Cardinality(Matching(userChallenges, last.caller, last.id))
        IN /\ n = (IF BothCreated THEN 2 ELSE 1)
           /\ challenges[last.id].participants = hist.ch[last.id].participants + n

\* the race has happened
C19_Witness ==
    /\ TwoJoinsOfOnePair /\ BothCreated
    /\ Cardinality(Matching(userChallenges, last.caller, last.id)) = 2
    /\ challenges[last.id].participants = hist.ch[last.id].participants + 2

JoinsOn(c) == {x \in hist.trace : x.kind = "join" /\ x.id = c}
LeavesOn(c) == {x \in hist.trace : x.kind = "leave" /\ hist.uc[x.id].challengeId = c}

\* all the requests there were are Joins of an existing challenge, each by a different
\* user who was not enrolled in it at the start
OnlyJoinsByNewUsers ==
    /\ hist.trace # {} /\ Cardinality(hist.trace) = issued
    /\ \A x \in hist.trace :
          /\ x.kind = "join"
          /\ x.id \in DOMAIN hist.ch
          /\ Matching(hist.uc, x.caller, x.id) = {}

\* all the requests there were are Leaves, each by the owner of a different Enrollment
\* that was there at the start
OnlyLeavesByOwners ==
    /\ hist.trace # {} /\ Cardinality(hist.trace) = issued
    /\ \A x \in hist.trace :
          /\ x.kind = "leave"
          /\ x.id \in DOMAIN hist.uc
          /\ hist.uc[x.id].userId = x.caller

\* C20: once N overlapping Joins by N different users not enrolled before have answered,
\* the challenge's counter is exactly N higher; once N overlapping Leaves of N different
\* Enrollments have answered, a counter that was at least N is exactly N lower.
C20_CountersRaceFree ==
    /\ AllIdle /\ OnlyJoinsByNewUsers =>
          \A c \in DOMAIN hist.ch :
              challenges[c].participants = hist.ch[c].participants + Cardinality(JoinsOn(c))
    /\ AllIdle /\ OnlyLeavesByOwners =>
          \A c \in DOMAIN hist.ch :
              hist.ch[c].participants >= Cardinality(LeavesOn(c)) =>
                  challenges[c].participants = hist.ch[c].participants - Cardinality(LeavesOn(c))

\* the two Leaves took the counter from 2 to 0
C20_Witness ==
    /\ AllIdle /\ OnlyLeavesByOwners /\ issued = 2
    /\ \E c \in DOMAIN hist.ch : hist.ch[c].participants = 2 /\ challenges[c].participants = 0

\* by how much the Enrollments of challenge c outnumber its participants counter
Drift(ch, uc, c) == Cardinality(EnrollmentsOf(uc, c)) - ch[c].participants

\* the call before the last one was a Join or Leave that answered 500 and left some
\* counter out of step; the last call started from there
LastAfterFailure ==
    /\ AllIdle
    /\ prev.kind \in {"join", "leave"} /\ prev.status = 500
    /\ \E c \in DOMAIN last.pre.ch : Drift(last.pre.ch, last.pre.uc, c) # 0

\* C21 as stated: after such a failure no later call brings a counter that is out of
\* step back in step.
C21_NeverBackInStep ==
    LastAfterFailure =>
        \A c \in DOMAIN last.pre.ch \cap DOMAIN challenges :
            Drift(last.pre.ch, last.pre.uc, c) # 0 => Drift(challenges, userChallenges, c) # 0

\* C21 amended: after such a failure a Join changes no drift unless it fails itself (a
\* Join by a user who has the Enrollment answers 'Already joined' and changes nothing),
\* and a counter comes back in step only by a Leave whose decrement is skipped on a
\* counter of 0, by a second failure in the other direction, or by the creator's update
\* of participants.
C21_BackInStepOnlyByLeaveOrUpdate ==
    LastAfterFailure =>
        /\ (last.kind = "join" /\ last.id \in DOMAIN last.pre.ch
               /\ Matching(last.pre.uc, last.caller, last.id) # {}) =>
              /\ last.status = 200
              /\ userChallenges = last.pre.uc
              /\ challenges = last.pre.ch
        /\ \A c \in DOMAIN last.pre.ch \cap DOMAIN challenges :
              /\ (last.kind = "join" /\ last.status # 500) =>
                    Drift(challenges, userChallenges, c) = Drift(last.pre.ch, last.pre.uc, c)
              /\ (Drift(last.pre.ch, last.pre.uc, c) # 0
                     /\ Drift(challenges, userChallenges, c) = 0) =>
                    \/ /\ last.kind = "leave"
                       /\ Drift(last.pre.ch, last.pre.uc, c) = 1
                       /\ last.pre.ch[c].participants = 0 \/ last.status = 500
                    \/ /\ last.kind = "join" /\ last.status = 500
                       /\ Drift(last.pre.ch, last.pre.uc, c) = -1
                    \/ last.kind = "patch" /\ last.status = 200

\* the Join failed after its insert and the same user's retry answered 'Already joined':
\* one Enrollment, counter still 0
C21_Witness ==
    /\ LastAfterFailure
    /\ prev.kind = "join" /\ last.kind = "join" /\ last.status = 200
    /\ prev.caller = last.caller /\ prev.id = last.id
    /\ Drift(challenges, userChallenges, last.id) = 1
    /\ challenges[last.id].participants = 0

\* C22: a successful UpdateProgress by the owner leaves lastUpdated at a time of that
\* call (between its start and its answer), whatever it supplies; so over calls that
\* do not overlap lastUpdated never goes back and is never before joinDate.
C22_LastUpdatedRefreshed ==
    LastProgressByOwner =>
        /\ last.status = 200
        /\ last.pre.now <= userChallenges[last.id].lastUpdated
        /\ userChallenges[last.id].lastUpdated <= now
        /\ last.pre.uc[last.id].lastUpdated <= userChallenges[last.id].lastUpdated
        /\ userChallenges[last.id].joinDate <= userChallenges[last.id].lastUpdated

\* a call with neither a numeric progress nor a numeric addLogValue, made after the
\* clock moved on, refreshed lastUpdated and nothing else
C22_Witness ==
    /\ LastProgressByOwner /\ last.status = 200
    /\ ~last.pre.hasProgress /\ ~last.pre.hasLog
    /\ last.pre.uc[last.id].lastUpdated < last.pre.now
    /\ userChallenges[last.id].lastUpdated = last.pre.now
    /\ userChallenges[last.id] = [last.pre.uc[last.id] EXCEPT !.lastUpdated = last.pre.now]

\* C23: an UpdateProgress by the owner with a progress that is there but is not a
\* number is rejected and leaves the Enrollment as it was.
C23_MalformedProgressRejected ==
    (LastProgressByOwner /\ last.pre.malformed) =>
        /\ last.status = 400
        /\ userChallenges = last.pre.uc

\* the last answered call is an update or delete of an existing Challenge by someone
\* other than its creator
LastByNonCreator ==
    /\ AllIdle
    /\ last.kind \in {"patch", "delete"}
    /\ last.id \in DOMAIN last.pre.ch
    /\ last.pre.ch[last.id].createdBy # last.caller

\* C24: an update or delete of an existing Challenge by a caller other than its creator
\* answers 403 and leaves every Challenge as it was; a Join or Leave removes no
\* Challenge and changes nothing of a Challenge but its participants.
C24_OnlyCreatorMutates ==
    /\ LastByNonCreator =>
          /\ last.status = 403
          /\ challenges = last.pre.ch
          /\ userChallenges = last.pre.uc
    /\ (AllIdle /\ last.kind \in {"join", "leave"}) =>
          /\ DOMAIN challenges = DOMAIN last.pre.ch
          /\ \A c \in DOMAIN challenges :
                challenges[c] = [last.pre.ch[c] EXCEPT !.participants = challenges[c].participants]

\* a delete by someone other than the creator of a Challenge that has an Enrollment
C24_Witness ==
    /\ LastByNonCreator /\ last.kind = "delete" /\ last.status = 403
    /\ last.id \in DOMAIN challenges
    /\ EnrollmentsOf(userChallenges, last.id) # {}

(* ------------- challenges created and updated with any date values ------------- *)
\* one request at a time; the date fields of the bodies range over every kind of value
NextDates ==
    \/ \E u \in Users, p \in CreateParticipantsInputs, sd \in DateInputs, ed \in DateInputs :
          CreateChallenge(1, u, p, sd, ed)
    \/ \E u \in Users, c \in ChallengeIds, p \in PatchParticipantsInputs,
          sd \in DateInputs, ed \in DateInputs :
          PatchFind(1, u, c, p, sd, ed)
    \/ \E r \in BagToSet(reqs) : PatchSet(r)

SpecDates == Init /\ [][NextDates]_vars

\* the day a stored date value stands for, if it stands for one
HasTime(x) == x.t \in {"Date", "dateText"}
EndAfterStart(doc) ==
    HasTime(doc.startDate) /\ HasTime(doc.endDate) /\ doc.startDate.v < doc.endDate.v

\* C25: in every reachable state every Challenge has an endDate strictly after its
\* startDate: no creation and no later update stores dates in any other order.
\* Violated: the update handler writes the dates of the body unchecked, and the
\* creation check lets text through that is no date.
C25_EndAfterStart == \A c \in DOMAIN challenges : EndAfterStart(challenges[c])

\* the call before the last one deleted a Challenge
AfterDelete == AllIdle /\ prev.kind = "delete" /\ prev.status = 200

\* the Enrollments that reference the Challenge the deletion removed
Orphans(uc) == {e \in DOMAIN uc : uc[e].challengeId = prev.id}

\* C26: the deletion of a Challenge removes the Challenge and nothing else: every
\* Enrollment that references it stays as it was, is still counted by the statistics,
\* is still listed for its owner (with null for the Challenge) and can still be left by
\* its owner without an error.
C26_DeleteDoesNotCascade ==
    /\ AllIdle /\ last.kind = "delete" /\ last.status = 200 =>
          /\ userChallenges = last.pre.uc
          /\ challenges = DeleteOne(last.pre.ch, last.id)
    /\ AfterDelete /\ last.kind = "stats" =>
          /\ last.status = 200
          /\ last.body.activeParticipants = Cardinality(OngoingUsers(last.pre.uc))
          /\ last.body.totalPlasticReducedKg = TotalLogged(last.pre.uc, DOMAIN last.pre.uc)
    /\ AfterDelete /\ last.kind = "list" =>
          /\ last.status = 200
          /\ \A e \in Orphans(last.pre.uc) :
                last.pre.uc[e].userId = last.caller =>
                    /\ e \in DOMAIN last.body
                    /\ last.body[e].doc = last.pre.uc[e]
                    /\ last.body[e].challenge = NoDoc
    /\ AfterDelete /\ last.kind = "leave" /\ last.id \in Orphans(last.pre.uc)
           /\ last.pre.uc[last.id].userId = last.caller =>
          /\ last.status = 200
          /\ userChallenges = DeleteOne(last.pre.uc, last.id)
          /\ challenges = last.pre.ch

\* a Challenge with two Enrollments was deleted, then the owner of one of them left it
C26_Witness ==
    /\ AfterDelete /\ last.kind = "leave" /\ last.status = 200
    /\ Cardinality(Orphans(last.pre.uc)) = 2
    /\ last.id \in Orphans(last.pre.uc)
    /\ prev.id \notin DOMAIN challenges
    /\ Cardinality(Orphans(userChallenges)) = 1

\* every request so far was a Join or a Leave
OnlyJoinsAndLeaves == \A x \in hist.trace : x.kind \in {"join", "leave"}

\* C27: a Challenge is created with participants 0 and the counter is never written by
\* a challenge update; after any sequence of Joins and Leaves that do not overlap and do
\* not fail, participants is the number of Enrollments that reference the Challenge.
C27_SequentialCounter ==
    AllIdle /\ OnlyJoinsAndLeaves =>
        \A c \in DOMAIN challenges :
            hist.ch[c].participants = Cardinality(EnrollmentsOf(hist.uc, c)) =>
                challenges[c].participants = Cardinality(EnrollmentsOf(userChallenges, c))

\* a Join that created an Enrollment, then the Leave of an Enrollment
C27_Witness ==
    /\ AllIdle /\ OnlyJoinsAndLeaves
    /\ prev.kind = "join" /\ prev.status = 201
    /\ last.kind = "leave" /\ last.status = 200
    /\ \E c \in DOMAIN challenges :
          /\ hist.ch[c].participants = Cardinality(EnrollmentsOf(hist.uc, c))
          /\ challenges[c].participants = 1

\* no request was sent twice: the Joins are of different (user, challenge) pairs and the
\* Leaves are of different Enrollments
NoDuplicateRequests == Cardinality(hist.trace) = issued

\* C28: without failures and without duplicate requests, a Challenge that starts with
\* participants 0 and no Enrollment has, once every request has answered, a counter
\* equal to its number of Enrollments, also when the Leave of an Enrollment overlaps
\* the Join that created it.
\* Violated: the Leave deletes the Enrollment and finds the counter still 0, so its
\* guarded decrement does nothing; the Join's increment then leaves 1 for no Enrollment.
C28_QuiescentConsistency ==
    AllIdle /\ NoDuplicateRequests =>
        \A c \in DOMAIN challenges :
            hist.ch[c].participants = 0 /\ EnrollmentsOf(hist.uc, c) = {} =>
                challenges[c].participants = Cardinality(EnrollmentsOf(userChallenges, c))

\* every request so far is a Leave
OnlyLeaves == \A x \in hist.trace : x.kind = "leave"

\* the Enrollments of challenge c that have been deleted
Deleted(c) == EnrollmentsOf(hist.uc, c) \ DOMAIN userChallenges

\* C29: however Leave requests interleave, the counter of a Challenge has been lowered
\* at most once per Enrollment of it that was deleted; two overlapping Leaves of one
\* Enrollment by its owner lower participants by at most 1.
\* Violated: both Leaves find the Enrollment before either deletes it, and each
\* decrements whether or not its own deleteOne removed anything.
C29_OneDecrementPerDeletion ==
    OnlyLeaves =>
        \A c \in DOMAIN hist.ch :
            hist.ch[c].participants - challenges[c].participants <= Cardinality(Deleted(c))

\* the Enrollments the step inserts
Inserted == DOMAIN userChallenges' \ DOMAIN userChallenges

\* C30: every Enrollment a Join inserts references a Challenge that is in the store
\* when it is inserted, also when the creator deletes the Challenge between the Join's
\* lookup of the Challenge and its insert.
\* Violated: the Join looks the Challenge up once, at its start, and inserts after two
\* more store calls, between which the deletion can run.
C30_JoinInsertsForPresentChallenge ==
    [][\A e \in Inserted : userChallenges'[e].challengeId \in DOMAIN challenges]_vars

\* the Leaves by its owner of an Enrollment that was in the store at the start
LeavesByOwner ==
    {x \in hist.trace : /\ x.kind = "leave"
                         /\ x.id \in DOMAIN hist.uc
                         /\ hist.uc[x.id].userId = x.caller}

\* a Leave of Enrollment e has not yet run its deleteOne
BeforeLeaveDelete(e) ==
    \E r \in BagToSet(reqs) : r.kind = "leave" /\ r.id = e /\ r.pc = "leaveDelete"

\* C31: a progress update never brings an Enrollment back: once a Leave has deleted
\* it, the log append and the field update of an update that had already passed its
\* checks create no document, and the Enrollment is absent in every later state.
C31_NoResurrection ==
    \A x \in LeavesByOwner : ~BeforeLeaveDelete(x.id) => x.id \notin DOMAIN userChallenges

\* a progress update with a log value and the Leave of the same Enrollment overlapped:
\* the update passed its checks, the Leave answered first, the update read back nothing
C31_Witness ==
    /\ AllIdle
    /\ prev.kind = "leave" /\ prev.status = 200
    /\ last.kind = "progress" /\ last.status = 200 /\ last.id = prev.id
    /\ last.body = NoDoc
    /\ [kind |-> "leave", caller |-> prev.caller, id |-> prev.id] \in LeavesByOwner
    /\ last.id \notin DOMAIN userChallenges

\* how many times each value occurs in a sequence
Occurrences(q) ==
    [v \in {q[i] : i \in 1..Len(q)} |-> Cardinality({i \in 1..Len(q) : q[i] = v})]

\* C32: no log append is lost: when progress updates on one Enrollment, each with a
\* numeric addLogValue, interleave at their store calls, then once all have answered
\* every supplied value is in progressLogs exactly once per request that supplied it,
\* and no step removes or reorders the entries that were already there.
C32_NoLostAppend ==
    /\ [](AllIdle => \A e \in DOMAIN userChallenges :
                        Occurrences(LogValues(userChallenges[e].progressLogs))
                            = Occurrences(calls[e]))
    /\ [][\A e \in DOMAIN userChallenges \cap DOMAIN userChallenges' :
             IsPrefix(userChallenges[e].progressLogs, userChallenges'[e].progressLogs)]_vars

\* two updates overlapped: the one that answered last had appended first
C32_Witness ==
    /\ AllIdle
    /\ \E e \in DOMAIN userChallenges :
          /\ calls[e] = <<3, 5>>
          /\ LogValues(userChallenges[e].progressLogs) = <<5, 3>>

(* ------------- a progress update whose store calls may throw ------------- *)
\* the $push updateOne throws: the catch block answers 500, nothing was written
ProgressPushFails(r) ==
    /\ r.pc = "progressPush"
    /\ Answer(r, Call("progress", r.caller, r.id, 500, NoDoc, r.pre))
    /\ UNCHANGED <<stores, now, issued, calls>>

\* the $set updateOne throws: the catch block answers 500, an entry appended before
\* stays in the array
ProgressSetFails(r) ==
    /\ r.pc = "progressSet"
    /\ Answer(r, Call("progress", r.caller, r.id, 500, NoDoc, r.pre))
    /\ UNCHANGED <<stores, now, issued, calls>>

\* the findOne that reads the document back throws: the catch block answers 500, both
\* writes stay
ProgressReadFails(r) ==
    /\ r.pc = "progressRead"
    /\ Answer(r, Call("progress", r.caller, r.id, 500, NoDoc, r.pre))
    /\ UNCHANGED <<stores, now, issued, calls>>

\* one request at a time
NextProgressFail ==
    \/ \E u \in Users, e \in EnrollmentIds, p \in ProgressInputs, a \in LogInputs :
          ProgressFind(1, u, e, p, a)
    \/ \E r \in BagToSet(reqs) : ProgressPush(r)
    \/ \E r \in BagToSet(reqs) : ProgressPushFails(r)
    \/ \E r \in BagToSet(reqs) : ProgressSet(r)
    \/ \E r \in BagToSet(reqs) : ProgressSetFails(r)
    \/ \E r \in BagToSet(reqs) : ProgressRead(r)
    \/ \E r \in BagToSet(reqs) : ProgressReadFails(r)
    \/ Tick

SpecProgressFail == Init /\ [][NextProgressFail]_vars

\* C33: a progress update that supplies both progress and addLogValue and ends with an
\* error has persisted nothing: neither the log entry nor the change of progress,
\* status and lastUpdated.
\* Violated: the append is a store call of its own, an error in the field update that
\* follows it leaves the appended entry in the array.
C33_AllOrNothing ==
    AllIdle /\ last.kind = "progress" /\ last.status = 500
            /\ last.pre.hasProgress /\ last.pre.hasLog =>
        userChallenges = last.pre.uc

(* --------------------- the serverless entry point (api/index.js) -------------------- *)
\* the routes attachRoutes registers (two of them stand for all), in its order
ApiRoutes == <<"POST /api/challenges/join/:id", "DELETE /api/user-challenges/:id">>

\* what a request asks for: the health check, a defined API route, an undefined route
Targets == {"GET /", "GET /api/unknown"} \cup {ApiRoutes[i] : i \in 1..Len(ApiRoutes)}

\* every route of attachRoutes is in the router's stack
RoutesRegistered(stack) ==
    \A i \in 1..Len(ApiRoutes) : \E j \in 1..Len(stack) : stack[j] = ApiRoutes[i]

\* the router's next(): the first layer from index i on that handles the request and
\* does not pass it on at once. cors and json call next() themselves, the error handler
\* (four parameters) is skipped, a route layer handles only its own method and path, and
\* past the end of the stack the default handler answers 404
RECURSIVE Handle(_, _, _)
Handle(stack, i, target) ==
    IF i > Len(stack) THEN [layer |-> "finalhandler", idx |-> i]
    ELSE IF stack[i] \in {"attachRoutes", "notFound"} \/ stack[i] = target
    THEN [layer |-> stack[i], idx |-> i]
    ELSE Handle(stack, i + 1, target)

\* the status a layer answers with
StatusOfLayer(layer) == IF layer \in {"notFound", "finalhandler"} THEN 404 ELSE 200

\* a request comes in and runs up to its first await: the health check answers at
\* once; any other request reaches the middleware, which calls attachRoutes(): that
\* returns at once when app.locals._routesAttached is set, and else sets it and calls
\* getDb()
Arrive(target) ==
    /\ CanAccept(MaxInFlight)
    /\ issued' = issued + 1
    /\ LET h == Handle(app.stack, 1, target)
           r == [pc |-> "next", kind |-> "request", target |-> target, idx |-> h.idx,
                 arrivedAttached |-> RoutesRegistered(app.stack)]
       IN IF h.layer # "attachRoutes"
          THEN /\ prev' = Summary(last)
               /\ last' = Call("request", "anyone", target, StatusOfLayer(h.layer), h.layer,
                               [arrivedAttached |-> RoutesRegistered(app.stack),
                                passedOn |-> FALSE, registered |-> RoutesRegistered(app.stack)])
               /\ UNCHANGED <<reqs, app>>
          ELSE IF app.routesAttached
          THEN /\ reqs' = reqs (+) SetToBag({r})
               /\ UNCHANGED <<last, prev, app>>
          ELSE /\ reqs' = reqs (+) SetToBag({[r EXCEPT !.pc = "getDb"]})
               /\ app' = [app EXCEPT !.routesAttached = TRUE]
               /\ UNCHANGED <<last, prev>>
    /\ UNCHANGED <<stores, now, calls, hist>>

\* getDb() returns (the cached client, or a new one that connected): attachRoutes
\* registers its routes, which app.get, app.post, ... push at the end of the stack
GetDb(r) ==
    /\ r.pc = "getDb"
    /\ app' = [app EXCEPT !.cached = TRUE, !.stack = @ \o ApiRoutes]
    /\ reqs' = (reqs (-) SetToBag({r})) (+) SetToBag({[r EXCEPT !.pc = "next"]})
    /\ UNCHANGED <<stores, now, issued, last, prev, calls, hist>>

\* client.connect() throws: attachRoutes rejects, the middleware answers 500;
\* app.locals._routesAttached stays set
GetDbFails(r) ==
    /\ r.pc = "getDb"
    /\ ~app.cached
    /\ reqs' = reqs (-) SetToBag({r})
    /\ prev' = Summary(last)
    /\ last' = Call("request", "anyone", r.target, 500, "attachRoutes",
                    [arrivedAttached |-> r.arrivedAttached, passedOn |-> FALSE,
                     registered |-> RoutesRegistered(app.stack)])
    /\ UNCHANGED <<stores, now, issued, calls, hist, app>>

\* await attachRoutes() is over: return next(), the layers after the middleware follow
CallNext(r) ==
    /\ r.pc = "next"
    /\ LET h == Handle(app.stack, r.idx + 1, r.target)
       IN /\ reqs' = reqs (-) SetToBag({r})
          /\ prev' = Summary(last)
          /\ last' = Call("request", "anyone", r.target, StatusOfLayer(h.layer), h.layer,
                          [arrivedAttached |-> r.arrivedAttached, passedOn |-> TRUE,
                           registered |-> RoutesRegistered(app.stack)])
    /\ UNCHANGED <<stores, now, issued, calls, hist, app>>

\* a cold start, or a warm one in which global._mongoClient is there already
InitAttach ==
    /\ challenges = <<>>
    /\ nextChallengeId = 1
    /\ userChallenges = <<>>
    /\ nextEnrollmentId = 1
    /\ now = 0
    /\ InitHistory
    /\ \E c \in BOOLEAN : app = [AppLoaded EXCEPT !.cached = c]

NextAttach ==
    \/ \E t \in Targets : Arrive(t)
    \/ \E r \in BagToSet(reqs) : GetDb(r)
    \/ \E r \in BagToSet(reqs) : GetDbFails(r)
    \/ \E r \in BagToSet(reqs) : CallNext(r)

SpecAttach == InitAttach /\ [][NextAttach]_vars

\* C34: a request for a defined API route that comes in after the routes have been
\* attached is handled by that route and not by the "Route not found" middleware.
\* Violated: the routes are pushed behind the "Route not found" middleware, which
\* answers every request that the attach middleware passes on.
C34_RouteHandlesRequest ==
    /\ last.kind = "request"
    /\ last.pre.arrivedAttached
    /\ \E i \in 1..Len(ApiRoutes) : ApiRoutes[i] = last.id
    => last.body = last.id

\* C35: the attach middleware passes a request on only when every API route is
\* registered, also for a request that comes in while the first attachRoutes still
\* waits for the database, and for one that comes in after an attachRoutes failed.
\* Violated: app.locals._routesAttached is set before the await and never reset.
C35_AttachedBeforeNext ==
    last.kind = "request" /\ last.pre.passedOn => last.pre.registered

====
